---- MODULE Spec2Model ----
(***************************************************************************)
(* A model of bin/reflections.py: generate_pdfs compiles every survey row  *)
(* into a report and renders it to <lower(last name)>.pdf; send_emails     *)
(* mails each graded student the report with a score-dependent cover text. *)
(*                                                                         *)
(* Python strings are sequences of one-character strings, Python floats    *)
(* are IEEE-754 binary64 values (a 53-bit significand, most significant    *)
(* bit first, and the exponent of its last bit), a pandas NaN cell is the  *)
(* value NaN.                                                              *)
(***************************************************************************)
EXTENDS Integers, Sequences, FiniteSets, TLC

VARIABLES
    columns,        \* generate_pdfs: df.columns, the header of the survey CSV
    nrows,          \* generate_pdfs: len(df), the number of survey rows
    student_idx,    \* generate_pdfs: rows of df processed or being processed
    col_info,       \* generate_pdfs: the row of the current iteration
    data,           \* generate_pdfs: the dict of the current iteration
    rst,            \* generate_pdfs: the generic sections appended to TEMPLATE
    files,          \* the output directory: file name -> content
    pc,             \* the position of __main__
    grades,         \* send_emails: the rows of the grades CSV
    average_grade,  \* send_emails: df['Score'].mean()
    i,              \* send_emails: grade rows dispatched
    body,           \* send_emails: the body composed in the current iteration
    smtp,           \* the SMTP sessions opened by send_email, in order
    stdout,         \* what send_email printed, in order
    answer,         \* percentage parsing alone: the answer string
    per,            \* percentage parsing alone: the parsed value
    question,       \* sub-label extraction alone: the question label
    sub_cat         \* sub-label extraction alone: the extracted sub-label

vars == <<columns, nrows, student_idx, col_info, data, rst, files, pc, grades,
          average_grade, i, body, smtp, stdout, answer, per, question, sub_cat>>

gen_vars == <<columns, nrows, student_idx, col_info, data, rst, files>>
send_vars == <<grades, average_grade, i, body, smtp, stdout>>
pure_vars == <<answer, per, question, sub_cat>>

\* ------------------------------------------------------------------ bounds

MaxAnswerLen == 3
MaxTailLen == 4
MaxRows == 2
MaxGrades == 3

\* ----------------------------------------------------------------- strings

Min(a, b) == IF a <= b THEN a ELSE b
Max(a, b) == IF a >= b THEN a ELSE b

SeqsUpTo(S, n) == UNION {[1..k -> S] : k \in 0..n}

Zeros(n) == [k \in 1..n |-> 0]

\* s.startswith(p)
StartsWith(s, p) == Len(p) <= Len(s) /\ SubSeq(s, 1, Len(p)) = p

\* s.endswith(p)
EndsWith(s, p) == Len(p) <= Len(s) /\ SubSeq(s, Len(s) - Len(p) + 1, Len(s)) = p

\* s[:-1]
DropLast(s) == SubSeq(s, 1, Len(s) - 1)

\* s.replace(c, '')
RECURSIVE Remove(_, _)
Remove(s, c) ==
    IF s = <<>> THEN <<>>
    ELSE IF Head(s) = c THEN Remove(Tail(s), c)
    ELSE <<Head(s)>> \o Remove(Tail(s), c)

\* s.split(c): the pieces of s between the occurrences of c, at least one piece
RECURSIVE Split(_, _)
Split(s, c) ==
    IF \A k \in DOMAIN s : s[k] # c THEN <<s>>
    ELSE LET k == CHOOSE k \in DOMAIN s : s[k] = c /\ \A j \in 1..(k - 1) : s[j] # c
         IN <<SubSeq(s, 1, k - 1)>> \o Split(SubSeq(s, k + 1, Len(s)), c)

UpperChars == <<"A", "C", "E", "K", "L", "O", "P", "R">>
LowerChars == <<"a", "c", "e", "k", "l", "o", "p", "r">>

LowerChar(c) ==
    IF \E k \in DOMAIN UpperChars : UpperChars[k] = c
    THEN LowerChars[CHOOSE k \in DOMAIN UpperChars : UpperChars[k] = c]
    ELSE c

\* s.lower()
Lower(s) == [k \in DOMAIN s |-> LowerChar(s[k])]

\* s.strip(): the only white space of the alphabet is the blank
RECURSIVE LStrip(_)
LStrip(s) == IF s # <<>> /\ Head(s) = " " THEN LStrip(Tail(s)) ELSE s

RECURSIVE RStrip(_)
RStrip(s) == IF s # <<>> /\ s[Len(s)] = " " THEN RStrip(DropLast(s)) ELSE s

Strip(s) == RStrip(LStrip(s))

\* ------------------------------------------------------------------ floats

MantissaBits == 53

FZero == [bits |-> <<>>, exp |-> 0]

RECURSIVE Pow2(_)
Pow2(k) == IF k = 0 THEN 1 ELSE 2 * Pow2(k - 1)

\* the index of the first non-zero digit of b, Len(b) + 1 when there is none
FirstOne(b) ==
    IF \A k \in DOMAIN b : b[k] = 0 THEN Len(b) + 1
    ELSE CHOOSE k \in DOMAIN b : b[k] = 1 /\ \A j \in 1..(k - 1) : b[j] = 0

StripZeros(b) == SubSeq(b, FirstOne(b), Len(b))

\* b + 1; one digit longer when every digit of b is 1 (a digit flips when
\* every digit after it is 1)
Inc(b) ==
    IF \A k \in DOMAIN b : b[k] = 1 THEN <<1>> \o Zeros(Len(b))
    ELSE [k \in DOMAIN b |->
            IF \A j \in (k + 1)..Len(b) : b[j] = 1 THEN 1 - b[k] ELSE b[k]]

\* the carry into digit k of a + b: a later digit generates one and every
\* digit between passes it on
Carry(a, b, k) ==
    \E j \in (k + 1)..Len(a) :
        /\ a[j] + b[j] = 2
        /\ \A m \in (k + 1)..(j - 1) : a[m] + b[m] = 1

\* a + b for digit sequences of equal length; one digit longer
AddBits(a, b) ==
    [k \in 1..(Len(a) + 1) |->
        IF k = 1 THEN (IF Carry(a, b, 0) THEN 1 ELSE 0)
        ELSE (a[k - 1] + b[k - 1] + (IF Carry(a, b, k - 1) THEN 1 ELSE 0)) % 2]

LimbBits == 10

\* the base-2^LimbBits digits of a natural number, most significant first
RECURSIVE Limbs(_)
Limbs(n) ==
    IF n = 0 THEN <<>>
    ELSE Append(Limbs(n \div Pow2(LimbBits)), n % Pow2(LimbBits))

\* the quotient limbs and the remainder of the number with limbs b by d
RECURSIVE LongDiv(_, _, _)
LongDiv(b, d, r) ==
    IF b = <<>> THEN [q |-> <<>>, r |-> r]
    ELSE LET r2 == Pow2(LimbBits) * r + Head(b)
             rest == LongDiv(Tail(b), d, r2 % d)
         IN [q |-> <<r2 \div d>> \o rest.q, r |-> rest.r]

\* the binary digits of a limb sequence
LimbsToBits(b) ==
    [k \in 1..(LimbBits * Len(b)) |->
        (b[(k - 1) \div LimbBits + 1]
            \div Pow2(LimbBits - 1 - ((k - 1) % LimbBits))) % 2]

\* digits b times 2^exp (plus a non-zero rest below the last digit when sticky)
\* rounded to the nearest binary64 value, ties to the even significand
Round(b, exp, sticky) ==
    LET s == StripZeros(b)
        n == Len(s)
    IN IF n = 0 THEN FZero
       ELSE IF n <= MantissaBits
       THEN [bits |-> s \o Zeros(MantissaBits - n), exp |-> exp - (MantissaBits - n)]
       ELSE LET keep == SubSeq(s, 1, MantissaBits)
                st == sticky \/ \E k \in (MantissaBits + 2)..n : s[k] = 1
                up == s[MantissaBits + 1] = 1 /\ (st \/ keep[MantissaBits] = 1)
                e == exp + (n - MantissaBits)
                inc == Inc(keep)
            IN IF ~up THEN [bits |-> keep, exp |-> e]
               ELSE IF Len(inc) > MantissaBits
               THEN [bits |-> SubSeq(inc, 1, MantissaBits), exp |-> e + 1]
               ELSE [bits |-> inc, exp |-> e]

\* x + y of two floats
FAdd(x, y) ==
    IF x = FZero THEN y
    ELSE IF y = FZero THEN x
    ELSE LET e == Min(x.exp, y.exp)
             xa == x.bits \o Zeros(x.exp - e)
             ya == y.bits \o Zeros(y.exp - e)
             n == Max(Len(xa), Len(ya))
         IN Round(AddBits(Zeros(n - Len(xa)) \o xa, Zeros(n - Len(ya)) \o ya),
                  e, FALSE)

DigitChars == <<"0", "1", "2", "3", "4", "5", "6", "7", "8", "9">>

IsDigit(c) == \E k \in DOMAIN DigitChars : DigitChars[k] = c

DigitVal(c) == (CHOOSE k \in DOMAIN DigitChars : DigitChars[k] = c) - 1

RECURSIVE DecimalValue(_)
DecimalValue(s) ==
    IF s = <<>> THEN 0 ELSE 10 * DecimalValue(DropLast(s)) + DigitVal(s[Len(s)])

RECURSIVE Pow10(_)
Pow10(k) == IF k = 0 THEN 1 ELSE 10 * Pow10(k - 1)

\* whether float(s) accepts the stripped string t: digits with at most one
\* point and at least one digit (the alphabet of the answers holds no sign,
\* exponent, underscore or letter of inf and nan)
IsFloatLiteral(t) ==
    /\ \A k \in DOMAIN t : IsDigit(t[k]) \/ t[k] = "."
    /\ Cardinality({k \in DOMAIN t : t[k] = "."}) <= 1
    /\ \E k \in DOMAIN t : IsDigit(t[k])

\* the numerator of a decimal fraction is scaled by 2^(LimbBits * ScaleLimbs)
\* before the division, which leaves the quotient more than MantissaBits + 2
\* digits for every denominator below 2^(LimbBits * ScaleLimbs - MantissaBits - 2)
ScaleLimbs == 7

\* float(s) of a string: the nearest binary64 value, or ValueError
ParseFloat(s) ==
    LET t == Strip(s)
    IN IF ~IsFloatLiteral(t) THEN [err |-> "ValueError", v |-> FZero]
       ELSE LET parts == Split(t, ".")
                frac == IF Len(parts) > 1 THEN parts[2] ELSE <<>>
                num == Limbs(DecimalValue(Remove(t, "."))) \o Zeros(ScaleLimbs)
                d == LongDiv(num, Pow10(Len(frac)), 0)
            IN [err |-> "none",
                v |-> Round(LimbsToBits(d.q), 0 - LimbBits * ScaleLimbs, d.r # 0)]

\* -------------------------------------------------- the labels of the code

FirstNameLabel == <<"F", "i", "r", "s", "t", " ", "N", "a", "m", "e">>
LastNameLabel == <<"L", "a", "s", "t", " ", "N", "a", "m", "e">>
WhatPercentage ==
    <<"W", "h", "a", "t", " ", "p", "e", "r", "c", "e", "n", "t", "a", "g", "e">>
NowThat == <<"N", "o", "w", " ", "t", "h", "a", "t">>
IfOther == <<"I", "f", " ", "\"", "o", "t", "h", "e", "r", "\"">>
Unnamed == <<"U", "n", "n", "a", "m", "e", "d">>

\* the float nan pandas gives an empty cell; no string has such an element
NaN == <<"NaN">>

\* str(answer)
Str(x) == IF x = NaN THEN <<"n", "a", "n">> ELSE x

\* ------------------------------------------------------ percentage parsing

\* try: per = float(answer[:-1]) / except: per = 0; slicing a float raises
\* TypeError, which the bare except catches like float's ValueError
ParsePercentage(a) ==
    IF a = NaN THEN FZero
    ELSE LET r == ParseFloat(DropLast(a))
         IN IF r.err = "none" THEN r.v ELSE FZero

\* question.split('[')[1][:-1]
SubCat(q) ==
    LET parts == Split(q, "[")
    IN IF Len(parts) < 2 THEN [err |-> "IndexError", v |-> <<>>]
       ELSE [err |-> "none", v |-> DropLast(parts[2])]

\* --------------------------------------------------------- classification

\* the branch of the if/elif chain a question label takes
Classify(q) ==
    IF q \in {FirstNameLabel, LastNameLabel} THEN "identity"
    ELSE IF StartsWith(q, WhatPercentage) THEN "category-1"
    ELSE IF StartsWith(q, NowThat) THEN "category-2"
    ELSE IF StartsWith(q, IfOther)
    THEN (IF EndsWith(q, <<"1">>) THEN "override-2" ELSE "override-1")
    ELSE IF StartsWith(q, Unnamed) THEN "ignorable"
    ELSE "generic"

\* data[k] = v
Put(d, k, v) == [x \in DOMAIN d \cup {k} |-> IF x = k THEN v ELSE d[x]]

\* question.replace(' ', '') as a key of data
IdentityKey(q) ==
    IF Remove(q, " ") = Remove(FirstNameLabel, " ") THEN "FirstName" ELSE "LastName"

Course == "EME 150A"

\* the dict and the text at the start of an iteration
NewData ==
    [course_desig |-> Course, lost_per |-> <<>>, test_prep |-> <<>>,
     test_prep_total |-> FZero, lost_per_total |-> FZero]

NewReport == [data |-> NewData, rst |-> <<>>, err |-> "none"]

\* a line of an itemized list: '- ' + sub_cat + ': ' + str(answer) + '\n'
Item(sub, a) == [sub_cat |-> sub, answer |-> Str(a)]

\* the body of the inner loop for one (question, answer) pair
Visit(st, q, a) ==
    LET tag == Classify(q)
        d == st.data
        sub == SubCat(q)
    IN IF st.err # "none" THEN st
       ELSE IF tag = "identity"
       THEN [st EXCEPT !.data = Put(d, IdentityKey(q), a)]
       ELSE IF tag \in {"category-1", "category-2"} /\ sub.err # "none"
       THEN [st EXCEPT !.err = sub.err]
       ELSE IF tag = "category-1"
       THEN [st EXCEPT !.data =
                [d EXCEPT !.test_prep = Append(@, Item(sub.v, a)),
                          !.test_prep_total = FAdd(@, ParsePercentage(a))]]
       ELSE IF tag = "category-2"
       THEN [st EXCEPT !.data =
                [d EXCEPT !.lost_per = Append(@, Item(sub.v, a)),
                          !.lost_per_total = FAdd(@, ParsePercentage(a))]]
       ELSE IF tag = "override-2"
       THEN [st EXCEPT !.data = Put(d, "lost_per_other", Str(a))]
       ELSE IF tag = "override-1"
       THEN [st EXCEPT !.data = Put(d, "test_prep_other", Str(a))]
       ELSE IF tag = "ignorable" THEN st
       ELSE [st EXCEPT !.rst = Append(@, [question |-> q, answer |-> Str(a)])]

\* the inner loop: for question, answer in zip(df.columns, col_info)
RECURSIVE Compile(_, _)
Compile(cols, row) ==
    IF cols = <<>> THEN NewReport
    ELSE Visit(Compile(DropLast(cols), DropLast(row)),
               cols[Len(cols)], row[Len(row)])

\* ---------------------------------------------------------------- render

\* the replacement fields of TEMPLATE and of END_TEMPLATE
TemplateKeys == {"course_desig", "FirstName", "LastName"}
EndTemplateKeys ==
    {"test_prep", "test_prep_total", "test_prep_other",
     "lost_per", "lost_per_total", "lost_per_other"}

\* rst.format(**data): the generic sections and the value of every field
Format(sections, d) ==
    [sections |-> sections,
     fields |-> [k \in TemplateKeys \cup EndTemplateKeys |->
                    IF k \in {"FirstName", "LastName"} THEN Str(d[k]) ELSE d[k]]]

Ext(e) == <<".">> \o e
RstExt == Ext(<<"r", "s", "t">>)
TexExt == Ext(<<"t", "e", "x">>)
PdfExt == Ext(<<"p", "d", "f">>)
\* what pdflatex leaves beside the document
ByproductExts == {Ext(<<"a", "u", "x">>), Ext(<<"l", "o", "g">>), Ext(<<"o", "u", "t">>)}
\* the globs generate_pdfs removes at the end
CleanedExts == ByproductExts \cup {RstExt, TexExt}

\* FileKey without the lower-casing
FileKeyAsWritten(d) == d["LastName"]

\* data['LastName'].lower(), the base name of the files of a row
FileKey(d) == Lower(d["LastName"])

\* the directory with name holding content
WriteFile(dir, name, content) ==
    [f \in DOMAIN dir \cup {name} |-> IF f = name THEN content ELSE dir[f]]

EmptyFile == [sections |-> <<>>, fields |-> <<>>]

\* the directory after the row's document was written and typeset: rst2latex
\* turns the .rst into a .tex, pdflatex the .tex into a .pdf and byproducts
Typeset(dir, key, doc) ==
    [f \in DOMAIN dir \cup {key \o e : e \in CleanedExts \cup {PdfExt}} |->
        IF f \in {key \o RstExt, key \o TexExt, key \o PdfExt} THEN doc
        ELSE IF \E e \in ByproductExts : f = key \o e THEN EmptyFile
        ELSE dir[f]]

\* the exception that ends the iteration after the inner loop, or "none"
RenderError(st) ==
    IF st.err # "none" THEN st.err
    ELSE IF "LastName" \notin DOMAIN st.data THEN "KeyError"
    ELSE IF st.data["LastName"] = NaN THEN "AttributeError"
    ELSE IF ~(TemplateKeys \cup EndTemplateKeys \subseteq DOMAIN st.data) THEN "KeyError"
    ELSE "none"

\* the directory after the iteration: open(rst_file, 'w') has truncated the
\* .rst before format raises
Render(dir, st) ==
    IF RenderError(st) = "none"
    THEN Typeset(dir, FileKey(st.data), Format(st.rst, st.data))
    ELSE IF st.err = "none" /\ "LastName" \in DOMAIN st.data /\ st.data["LastName"] # NaN
    THEN WriteFile(dir, FileKey(st.data) \o RstExt, EmptyFile)
    ELSE dir

Exceptions == {"KeyError", "AttributeError", "IndexError"}

\* ------------------------------------------------------------ the inputs

\* a sub-question of a grid question, as Google Forms labels its column
Bracket(prompt, sub) == prompt \o <<".", ".", ".", "[">> \o sub \o <<"]">>

PrepNotes ==
    Bracket(WhatPercentage,
            <<"R", "e", "a", "d", "i", "n", "g", " ", "n", "o", "t", "e", "s">>)
PrepProblems ==
    Bracket(WhatPercentage,
            <<"P", "r", "a", "c", "t", "i", "c", "e", " ",
              "p", "r", "o", "b", "l", "e", "m", "s">>)
PrepOther == Bracket(WhatPercentage, <<"O", "t", "h", "e", "r">>)
LostCareless == Bracket(NowThat, <<"C", "a", "r", "e", "l", "e", "s", "s">>)
\* pandas names the repeats of a column label label.1, label.2, ...
IfOther1 == IfOther \o <<".", "1">>
IfOther2 == IfOther \o <<".", "2">>
UnnamedColumn == Unnamed \o <<":", " ", "9">>
Comments == <<"C", "o", "m", "m", "e", "n", "t", "s">>

Pool ==
    <<FirstNameLabel, LastNameLabel, PrepNotes, PrepProblems, LostCareless,
      IfOther, IfOther1, UnnamedColumn, Comments>>

\* the sub-sequences of a sequence
RECURSIVE SubLayouts(_)
SubLayouts(pool) ==
    IF pool = <<>> THEN {<<>>}
    ELSE LET rest == SubLayouts(Tail(pool))
         IN rest \cup {<<Head(pool)>> \o r : r \in rest}

\* the orders of a set of labels
RECURSIVE Orders(_)
Orders(S) ==
    IF S = {} THEN {<<>>}
    ELSE UNION {{<<x>> \o r : r \in Orders(S \ {x})} : x \in S}

Complete == <<FirstNameLabel, LastNameLabel, IfOther, IfOther1>>

\* the survey headers: the columns of the pool present or absent, the three
\* test-preparation columns in every order, and a third "other" column
Headers ==
    SubLayouts(Pool)
    \cup {Complete \o r : r \in Orders({PrepNotes, PrepProblems, PrepOther})}
    \cup {Complete \o <<IfOther2>>, <<IfOther2>> \o Complete}

Pct(n) == n \o <<"%">>

\* the answers a column is given
Cells(q) ==
    IF q = FirstNameLabel THEN {<<"A", "n", "a">>}
    ELSE IF q = LastNameLabel THEN {<<"L", "e", "e">>, <<"l", "e", "e">>, NaN}
    ELSE IF q = PrepNotes THEN {Pct(<<"4", "0">>), Pct(<<"3", "3", ".", "3">>)}
    ELSE IF q = PrepProblems THEN {Pct(<<"6", "5">>), Pct(<<"3", "3", ".", "3">>)}
    ELSE IF q = PrepOther THEN {Pct(<<"3", "3", ".", "4">>)}
    ELSE IF q = LostCareless THEN {Pct(<<"5", "0">>)}
    ELSE IF q = UnnamedColumn THEN {NaN}
    ELSE IF q = IfOther2 THEN {<<"n", "o">>}
    ELSE {<<"o", "k">>}

\* the rows a header can have
RECURSIVE Rows(_)
Rows(cols) ==
    IF cols = <<>> THEN {<<>>}
    ELSE {<<c>> \o r : c \in Cells(Head(cols)), r \in Rows(Tail(cols))}

Email(k) == <<"student", k>>

LastNames == {<<"L", "e", "e">>, <<"K", "i", "m">>}
Scores == 0..2

GradeRow(k, last, score) ==
    [FirstName |-> <<"A", "n", "a">>, LastName |-> last, Email |-> Email(k),
     Score |-> score]

\* the grades files of n rows
GradesOf(n) ==
    {[k \in 1..n |-> GradeRow(k, last[k], score[k])] :
        last \in [1..n -> LastNames], score \in [1..n -> Scores]}

SampleGrades ==
    <<GradeRow(1, <<"L", "e", "e">>, 1), GradeRow(2, <<"l", "e", "e">>, 2)>>

\* --------------------------------------------------------------- __main__

\* what every run starts from: an empty output directory, nothing printed
Start ==
    /\ student_idx = 0
    /\ col_info = <<>>
    /\ data = NewData
    /\ rst = <<>>
    /\ files = <<>>
    /\ pc = "generate"
    /\ average_grade = [sum |-> 0, count |-> 0]
    /\ i = 0
    /\ body = [poor_text |-> FALSE, FirstName |-> <<>>]
    /\ smtp = <<>>
    /\ stdout = <<>>
    /\ answer = <<>>
    /\ per = FZero
    /\ question = <<>>
    /\ sub_cat = [err |-> "none", v |-> <<>>]

\* every header, a fixed grades file
InitGen ==
    /\ columns \in Headers
    /\ nrows \in 0..MaxRows
    /\ grades = SampleGrades
    /\ Start

\* every grades file, a survey of one complete row at most
InitSend ==
    /\ columns = Complete
    /\ nrows \in 0..1
    /\ grades \in UNION {GradesOf(n) : n \in 0..MaxGrades}
    /\ Start

\* one iteration of generate_pdfs' loop over df.iterrows()
GenRow ==
    /\ pc = "generate"
    /\ student_idx < nrows
    /\ \E row \in Rows(columns) :
        LET st == Compile(columns, row)
            e == RenderError(st)
        IN /\ col_info' = row
           /\ data' = st.data
           /\ rst' = st.rst
           /\ files' = Render(files, st)
           /\ pc' = IF e = "none" THEN "generate" ELSE e
    /\ student_idx' = student_idx + 1
    /\ UNCHANGED <<columns, nrows>>
    /\ UNCHANGED send_vars
    /\ UNCHANGED pure_vars

\* the end of generate_pdfs: the intermediate files are removed
Cleanup ==
    /\ pc = "generate"
    /\ student_idx = nrows
    /\ files' = [f \in {g \in DOMAIN files : \A e \in CleanedExts : ~EndsWith(g, e)}
                    |-> files[f]]
    /\ pc' = "generated"
    /\ UNCHANGED <<columns, nrows, student_idx, col_info, data, rst>>
    /\ UNCHANGED send_vars
    /\ UNCHANGED pure_vars

\* __main__ without --email
NoEmail ==
    /\ pc = "generated"
    /\ pc' = "done"
    /\ UNCHANGED gen_vars
    /\ UNCHANGED send_vars
    /\ UNCHANGED pure_vars

RECURSIVE SumScores(_)
SumScores(g) == IF g = <<>> THEN 0 ELSE SumScores(DropLast(g)) + g[Len(g)].Score

\* df['Score'].mean(): the sum over the count, nan for no rows
Mean(g) == [sum |-> SumScores(g), count |-> Len(g)]

\* Less with <= for <
LessOrEqual(score, mean) == mean.count > 0 /\ score * mean.count <= mean.sum

\* score < mean; nothing is less than nan
Less(score, mean) == mean.count > 0 /\ score * mean.count < mean.sum

\* the start of send_emails
SendStart ==
    /\ pc = "generated"
    /\ average_grade' = Mean(grades)
    /\ pc' = "dispatch"
    /\ UNCHANGED gen_vars
    /\ UNCHANGED <<grades, i, body, smtp, stdout>>
    /\ UNCHANGED pure_vars

\* the calls of send_email's try block, in order
TransportSteps == <<"connect", "ehlo", "starttls", "sendmail", "quit">>

From == "jkm@ucdavis.edu"

\* the body send_emails composes for a row
Compose(row, mean) ==
    [poor_text |-> Less(row.Score, mean), FirstName |-> row.FirstName]

\* the path of the attachment send_emails passes for a row
Attachment(row) == Lower(row.LastName) \o PdfExt

\* SendEmail without the except FileNotFoundError branch: the message goes out
\* with an empty attachment
SendEmailUnchecked(recipient, text, path, fail) ==
    /\ smtp' = Append(smtp,
            [to |-> <<recipient, From>>, body |-> text, filename |-> path,
             payload |-> IF path \in DOMAIN files THEN files[path] ELSE EmptyFile,
             calls |-> IF fail = 0 THEN TransportSteps
                       ELSE SubSeq(TransportSteps, 1, fail),
             raised |-> fail # 0])
    /\ stdout' = Append(stdout,
            [said |-> IF fail = 0 THEN "sent" ELSE "failed", to |-> recipient])

\* SendEmail that opens a second session when the first one fails
SendEmailRetry(recipient, text, path, fail) ==
    IF path \notin DOMAIN files
    THEN /\ stdout' = Append(stdout, [said |-> "no reflection", to |-> recipient])
         /\ smtp' = smtp
    ELSE LET session(calls, raised) ==
                 [to |-> <<recipient, From>>, body |-> text, filename |-> path,
                  payload |-> files[path], calls |-> calls, raised |-> raised]
         IN /\ smtp' = IF fail = 0
                       THEN Append(smtp, session(TransportSteps, FALSE))
                       ELSE smtp \o <<session(SubSeq(TransportSteps, 1, fail), TRUE),
                                      session(TransportSteps, FALSE)>>
            /\ stdout' = Append(stdout, [said |-> "sent", to |-> recipient])

\* send_email with the transport failing at step fail (0: at none)
SendEmail(recipient, text, path, fail) ==
    IF path \notin DOMAIN files
    THEN /\ stdout' = Append(stdout, [said |-> "no reflection", to |-> recipient])
         /\ smtp' = smtp
    ELSE /\ smtp' = Append(smtp,
                [to |-> <<recipient, From>>, body |-> text, filename |-> path,
                 payload |-> files[path],
                 calls |-> IF fail = 0 THEN TransportSteps
                           ELSE SubSeq(TransportSteps, 1, fail),
                 raised |-> fail # 0])
         /\ stdout' = Append(stdout,
                [said |-> IF fail = 0 THEN "sent" ELSE "failed", to |-> recipient])

\* one iteration of send_emails' loop over df.iterrows()
Dispatch ==
    /\ pc = "dispatch"
    /\ i < Len(grades)
    /\ i' = i + 1
    /\ body' = Compose(grades[i + 1], average_grade)
    /\ \E fail \in 0..Len(TransportSteps) :
        SendEmail(grades[i + 1].Email, body', Attachment(grades[i + 1]), fail)
    /\ UNCHANGED gen_vars
    /\ UNCHANGED <<grades, average_grade, pc>>
    /\ UNCHANGED pure_vars

\* the end of send_emails
SendDone ==
    /\ pc = "dispatch"
    /\ i = Len(grades)
    /\ pc' = "done"
    /\ UNCHANGED gen_vars
    /\ UNCHANGED send_vars
    /\ UNCHANGED pure_vars

Next == GenRow \/ Cleanup \/ NoEmail \/ SendStart \/ Dispatch \/ SendDone

SpecGen == InitGen /\ [][Next]_vars
SpecSend == InitSend /\ [][Next]_vars

\* ------------------------------------------ the two string functions alone

AnswerChars == {"4", "0", ".", "%", "x", " "}
TailChars == {"[", "]", "a"}

\* the labels of the two percentage questions with any text after the prompt
PromptLabels ==
    {prompt \o tail : prompt \in {WhatPercentage, NowThat},
                      tail \in SeqsUpTo(TailChars, MaxTailLen)}

\* an answer to parse or a label to take the sub-label of
InitPure ==
    /\ \/ /\ pc = "parse"
          /\ answer \in SeqsUpTo(AnswerChars, MaxAnswerLen)
          /\ question = <<>>
       \/ /\ pc = "extract"
          /\ answer = <<>>
          /\ question \in PromptLabels
    /\ per = FZero
    /\ sub_cat = [err |-> "none", v |-> <<>>]
    /\ columns = <<>>
    /\ nrows = 0
    /\ grades = <<>>
    /\ student_idx = 0
    /\ col_info = <<>>
    /\ data = NewData
    /\ rst = <<>>
    /\ files = <<>>
    /\ average_grade = [sum |-> 0, count |-> 0]
    /\ i = 0
    /\ body = [poor_text |-> FALSE, FirstName |-> <<>>]
    /\ smtp = <<>>
    /\ stdout = <<>>

\* the try/except of lines 115-118 and 123-126 on one answer
ParseAnswer ==
    /\ pc = "parse"
    /\ per' = ParsePercentage(answer)
    /\ pc' = "parsed"
    /\ UNCHANGED <<answer, question, sub_cat>>
    /\ UNCHANGED gen_vars
    /\ UNCHANGED send_vars

\* lines 113 and 121 on one label
ExtractSubCat ==
    /\ pc = "extract"
    /\ sub_cat' = SubCat(question)
    /\ pc' = "extracted"
    /\ UNCHANGED <<answer, question, per>>
    /\ UNCHANGED gen_vars
    /\ UNCHANGED send_vars

NextPure == ParseAnswer \/ ExtractSubCat

SpecPure == InitPure /\ [][NextPure]_vars

\* ------------------------------------------------------------- the claims

HasColumn(q) == \E k \in DOMAIN columns : columns[k] = q

\* the current row's answer in column q
CellOf(q) == col_info[CHOOSE k \in DOMAIN columns : columns[k] = q]

\* the current row has no first name or no last name
LacksIdentity ==
    \E q \in {FirstNameLabel, LastNameLabel} : ~HasColumn(q) \/ CellOf(q) = NaN

Tagged(tag) == {k \in DOMAIN columns : Classify(columns[k]) = tag}

\* the sessions send_email opened for grade row k
SessionsOf(k) == {j \in DOMAIN smtp : smtp[j].to[1] = grades[k].Email}

\* the dispatched grade rows whose document is, or is not, in the directory
WithDocument == {k \in 1..i : Attachment(grades[k]) \in DOMAIN files}
WithoutDocument == {k \in 1..i : Attachment(grades[k]) \notin DOMAIN files}

\* send_emails has not stopped short of a row: every row taken has printed
\* its outcome, no exception has escaped, and the end comes after the last row
LoopGoesOn ==
    /\ Len(stdout) = i
    /\ i > 0 => pc \in {"dispatch", "done"}
    /\ (pc = "done" /\ i > 0) => i = Len(grades)

\* C1: a grade row whose document lower(Last Name) + '.pdf' is not in the
\* directory is skipped: send_email prints that no reflection was turned in,
\* opens no SMTP session for the recipient, raises nothing, and the loop goes
\* on to every later row.
C1_MissingAttachmentSkipped ==
    /\ \A k \in WithoutDocument :
        /\ stdout[k] = [said |-> "no reflection", to |-> grades[k].Email]
        /\ SessionsOf(k) = {}
    /\ LoopGoesOn

\* a run that skipped its first row and sent its second
C1_Witness ==
    /\ pc = "done"
    /\ Len(grades) = 2
    /\ WithoutDocument = {1}
    /\ stdout[2].said = "sent"

\* C2: when a call of the transport raises for a recipient, the failure is
\* printed for that recipient, exactly one session was opened for them (no
\* second attempt), and the loop goes on to every later row.
C2_TransportFailureIsolated ==
    /\ \A k \in WithDocument :
        /\ Cardinality(SessionsOf(k)) = 1
        /\ \A j \in SessionsOf(k) :
            stdout[k] = [said |-> IF smtp[j].raised THEN "failed" ELSE "sent",
                         to |-> grades[k].Email]
    /\ Len(smtp) = Cardinality(WithDocument)
    /\ LoopGoesOn

\* a run whose first row failed in sendmail and whose second row was sent
C2_Witness ==
    /\ pc = "done"
    /\ Len(grades) = 2
    /\ Len(smtp) = 2
    /\ smtp[1].raised /\ smtp[1].calls[Len(smtp[1].calls)] = "sendmail"
    /\ stdout[1].said = "failed"
    /\ stdout[2].said = "sent"

\* C3: a survey row that lacks the first or the last name is fatal for that
\* row only: generate_pdfs goes on to the following rows (the header has both
\* "other" columns, so that nothing else is missing from the row).
C3_MissingIdentityNotFatal ==
    (/\ student_idx > 0
     /\ student_idx < nrows
     /\ HasColumn(IfOther) /\ HasColumn(IfOther1)
     /\ LacksIdentity) => pc \notin Exceptions

\* the value the claim gives an answer: the number before a final percent
\* sign, 0 for anything else
ExpectedPercentage(a) ==
    IF a # <<>> /\ a[Len(a)] = "%" /\ ParseFloat(DropLast(a)).err = "none"
    THEN ParseFloat(DropLast(a)).v
    ELSE FZero

\* C4: an answer '<number>%' parses to <number>; an answer without the final
\* percent sign, with non-numeric content, or empty parses to 0.
C4_PercentageParsed == pc = "parsed" => per = ExpectedPercentage(answer)

FirstIndex(s, c) == CHOOSE k \in DOMAIN s : s[k] = c /\ \A j \in 1..(k - 1) : s[j] # c
LastIndex(s, c) == CHOOSE k \in DOMAIN s : s[k] = c /\ \A j \in (k + 1)..Len(s) : s[j] # c

\* a label with a '[' and a ']' somewhere after it
Bracketed(q) ==
    /\ \E k \in DOMAIN q : q[k] = "["
    /\ \E k \in DOMAIN q : q[k] = "]"
    /\ FirstIndex(q, "[") < LastIndex(q, "]")

Between(q) == SubSeq(q, FirstIndex(q, "[") + 1, LastIndex(q, "]") - 1)

\* C6: the sub-label of a label of either percentage question is the text
\* between the label's first '[' and its last ']'.
C6_SubLabelBetweenBrackets ==
    (pc = "extracted" /\ Bracketed(question)) =>
        sub_cat = [err |-> "none", v |-> Between(question)]

Ana == <<"A", "n", "a">>
Lee == <<"L", "e", "e">>
ExampleHeader == <<FirstNameLabel, LastNameLabel, PrepNotes, PrepProblems>>
ExampleRow == <<Ana, Lee, Pct(<<"4", "0">>), Pct(<<"6", "5">>)>>
LeePdf == <<"l", "e", "e">> \o PdfExt

\* the example row is rendered to lee.pdf with two lines and the total 105
C5_Example ==
    (student_idx > 0 /\ columns = ExampleHeader /\ col_info = ExampleRow) =>
        /\ pc \notin Exceptions
        /\ LeePdf \in DOMAIN files
        /\ Len(files[LeePdf].fields["test_prep"]) = 2
        /\ files[LeePdf].fields["test_prep_total"] = ParseFloat(<<"1", "0", "5">>).v

\* a row with both identity fields is rendered to lower(Last Name) + '.pdf'
C5_Rendered ==
    (student_idx > 0 /\ ~LacksIdentity) =>
        /\ pc \notin Exceptions
        /\ Lower(CellOf(LastNameLabel)) \o PdfExt \in DOMAIN files

\* C5: the example row (Ana Lee, '40%' and '65%' of test preparation, no
\* "other" columns) is rendered to lee.pdf with two itemized lines and the
\* total 105, and every row with both identity fields is rendered, whichever
\* other questions the header has.
C5_EndToEnd == C5_Example /\ C5_Rendered

\* C7: every column of a rendered row is put in one class and every column
\* that is not ignorable has its answer in the compiled report, in its class's
\* place and nowhere else.
C7_EveryAnswerCompiled ==
    (student_idx > 0 /\ pc \notin Exceptions) =>
        /\ \A k \in Tagged("identity") : data[IdentityKey(columns[k])] = col_info[k]
        /\ Len(data["test_prep"]) = Cardinality(Tagged("category-1"))
        /\ \A k \in Tagged("category-1") :
            \E j \in DOMAIN data["test_prep"] :
                data["test_prep"][j] = Item(SubCat(columns[k]).v, col_info[k])
        /\ Len(data["lost_per"]) = Cardinality(Tagged("category-2"))
        /\ \A k \in Tagged("category-2") :
            \E j \in DOMAIN data["lost_per"] :
                data["lost_per"][j] = Item(SubCat(columns[k]).v, col_info[k])
        /\ \A k \in Tagged("override-1") : data["test_prep_other"] = Str(col_info[k])
        /\ \A k \in Tagged("override-2") : data["lost_per_other"] = Str(col_info[k])
        /\ Len(rst) = Cardinality(Tagged("generic"))
        /\ \A k \in Tagged("generic") :
            \E j \in DOMAIN rst :
                rst[j] = [question |-> columns[k], answer |-> Str(col_info[k])]

\* the sequence s with its elements a and b exchanged
Swap(s, a, b) ==
    [k \in DOMAIN s |-> IF k = a THEN s[b] ELSE IF k = b THEN s[a] ELSE s[k]]

\* the parsed values of the answers of one class, added up in column order
RECURSIVE SumParsed(_, _, _)
SumParsed(cols, row, tag) ==
    IF cols = <<>> THEN FZero
    ELSE IF Classify(cols[Len(cols)]) = tag
    THEN FAdd(SumParsed(DropLast(cols), DropLast(row), tag),
              ParsePercentage(row[Len(row)]))
    ELSE SumParsed(DropLast(cols), DropLast(row), tag)

\* C9: each total of a rendered row is the sum of the parsed values of the
\* row's answers of that category, starting from 0 for every row, and is the
\* same however the columns are ordered (every exchange of two columns leaves
\* it).
C9_TotalIsOrderFreeSum ==
    (student_idx > 0 /\ pc \notin Exceptions) =>
        /\ data["test_prep_total"] = SumParsed(columns, col_info, "category-1")
        /\ data["lost_per_total"] = SumParsed(columns, col_info, "category-2")
        /\ \A a, b \in DOMAIN columns :
            a < b =>
                LET d == Compile(Swap(columns, a, b), Swap(col_info, a, b)).data
                IN /\ d["test_prep_total"] = data["test_prep_total"]
                   /\ d["lost_per_total"] = data["lost_per_total"]

Pdfs == {f \in DOMAIN files : EndsWith(f, PdfExt)}

Base(f) == SubSeq(f, 1, Len(f) - Len(PdfExt))

\* the grade row a session was opened for
RowOf(j) == CHOOSE k \in DOMAIN grades : grades[k].Email = smtp[j].to[1]

\* C10: the directory holds at most one .pdf per lower-cased last name; the
\* .pdf of the last row rendered is that row's document, whatever an earlier
\* row of the same lower-cased last name left there; and every message carries
\* the .pdf of its grade row's lower-cased last name, so grade rows with the
\* same lower-cased last name get the same document.
C10_OneDocumentPerKey ==
    /\ \A f, g \in Pdfs : Lower(Base(f)) = Lower(Base(g)) => f = g
    /\ (student_idx > 0 /\ pc \notin Exceptions) =>
        /\ Lower(data["LastName"]) \o PdfExt \in Pdfs
        /\ files[Lower(data["LastName"]) \o PdfExt] = Format(rst, data)
    /\ \A j \in DOMAIN smtp :
        /\ smtp[j].filename = Lower(grades[RowOf(j)].LastName) \o PdfExt
        /\ smtp[j].payload = files[smtp[j].filename]
    /\ \A j, k \in DOMAIN smtp :
        Lower(grades[RowOf(j)].LastName) = Lower(grades[RowOf(k)].LastName)
            => smtp[j].payload = smtp[k].payload

\* two rows were rendered, the second as "Lee" over the first, and the one
\* document went to the grade rows "Lee" and "lee"
C10_Witness ==
    /\ pc = "done"
    /\ student_idx = 2
    /\ data["LastName"] = Lee
    /\ Pdfs = {LeePdf}
    /\ Len(smtp) = 2
    /\ grades[RowOf(1)].LastName # grades[RowOf(2)].LastName
    /\ smtp[1].payload = Format(rst, data)

\* the cover text of every dispatched row: the encouragement exactly when the
\* row's score is below the mean of all the scores
C8_Variant ==
    /\ pc = "dispatch" => average_grade = Mean(grades)
    /\ i > 0 => body.poor_text = (grades[i].Score * Len(grades) < SumScores(grades))
    /\ \A j \in DOMAIN smtp :
        smtp[j].body.poor_text =
            (grades[RowOf(j)].Score * Len(grades) < SumScores(grades))

\* C8: the mean is computed from all the grade rows before the first dispatch
\* and does not change during the dispatches; a row's message carries the
\* encouragement exactly when its score is strictly below the mean, so not at
\* the mean.
C8_PoorTextBelowMean ==
    /\ []C8_Variant
    /\ [][pc = "dispatch" => average_grade' = average_grade]_vars

\* a row at the mean was sent the plain text after a row below the mean was
\* sent the encouragement
C8_Witness ==
    /\ Len(grades) = 3
    /\ Len(smtp) = 2
    /\ RowOf(1) = 1 /\ smtp[1].body.poor_text
    /\ RowOf(2) = 2 /\ ~smtp[2].body.poor_text
    /\ grades[2].Score * Len(grades) = SumScores(grades)

====
